---- MODULE Spec2Model ----
(***************************************************************************)
(* Model of the lineup optimizer service (src/main.py): one POST /optimize *)
(* request is validated, pre-processed into a fairness target, turned into *)
(* a 0/1 program, handed to the MILP solver and read back into a table.    *)
(*                                                                         *)
(* JSON values are tagged records; JSON strings that the code converts     *)
(* (inning keys through int(), counts through float()) are sequences of    *)
(* one-character strings so that the conversion is computed, not assumed.  *)
(* Numbers are exact: the objective is kept as an integer by scaling it    *)
(* with the denominator of target_bench_ratio.                             *)
(***************************************************************************)
EXTENDS Integers, Sequences, FiniteSets, TLC

VARIABLES pc, input_data, players_str, game_innings, fixed_assignments,
          actual_counts_input, player_preferences, actual_counts,
          total_current, target_bench_ratio, prob, solved, response,
          round, previous

vars == <<pc, input_data, players_str, game_innings, fixed_assignments,
          actual_counts_input, player_preferences, actual_counts,
          total_current, target_bench_ratio, prob, solved, response,
          round, previous>>

----------------------------------------------------------------------------
(* Configuration, src/main.py lines 25-31.                                 *)

RESTRICTED_POSITION_PENALTY == 1000
NOT_PREFERRED_PENALTY == 10
BENCH_DEVIATION_WEIGHT == 1
SOLVER_TIME_LIMIT == 55

POSITIONS == <<"CF", "LF", "RF", "SS", "1B", "2B", "3B", "P", "C", "OUT">>
MAIN_POSITIONS == <<"CF", "LF", "RF", "SS", "1B", "2B", "3B", "P", "C">>

\* game_innings = input_data.get("game_innings", 6)
DEFAULT_GAME_INNINGS == 6

Range(s) == {s[k] : k \in DOMAIN s}
PositionSet == Range(POSITIONS)
MainSet == Range(MAIN_POSITIONS)

----------------------------------------------------------------------------
(* Bounds of the explored requests.                                        *)

\* largest game_innings a request of Spec states explicitly
MaxInnings == 2
\* largest number of players beyond the nine main positions
MaxBench == 1
\* largest number of fixed-assignment entries a request adds to its pinned ones
MaxExtraFixed == 2
\* largest historical count a request states
MaxCount == 2

----------------------------------------------------------------------------
(* Python conversions.                                                     *)

Digits == <<"0", "1", "2", "3", "4", "5", "6", "7", "8", "9">>
DigitSet == Range(Digits)
Whitespace == {" "}

DigitValue(c) == (CHOOSE k \in DOMAIN Digits : Digits[k] = c) - 1

RECURSIVE StripLeft(_)
StripLeft(s) ==
    IF s # <<>> /\ Head(s) \in Whitespace THEN StripLeft(Tail(s)) ELSE s

RECURSIVE StripRight(_)
StripRight(s) ==
    IF s # <<>> /\ s[Len(s)] \in Whitespace
    THEN StripRight(SubSeq(s, 1, Len(s) - 1))
    ELSE s

RECURSIVE DigitsValue(_)
DigitsValue(s) ==
    IF s = <<>> THEN 0
    ELSE 10 * DigitsValue(SubSeq(s, 1, Len(s) - 1)) + DigitValue(s[Len(s)])

\* int(text) and float(text) on a string over digits, sign, blank and letters:
\* surrounding blanks are dropped, one sign is allowed, then only digits.
\* [ok |-> FALSE] stands for the ValueError.
ParseNumber(s) ==
    LET t == StripRight(StripLeft(s))
        signed == t # <<>> /\ Head(t) \in {"+", "-"}
        body == IF signed THEN Tail(t) ELSE t
    IN  IF body # <<>> /\ \A k \in DOMAIN body : body[k] \in DigitSet
        THEN [ok |-> TRUE,
              n |-> IF signed /\ Head(t) = "-" THEN 0 - DigitsValue(body)
                    ELSE DigitsValue(body)]
        ELSE [ok |-> FALSE, n |-> 0]

RECURSIVE StrOfNat(_)
\* str(i) for i >= 0
StrOfNat(i) ==
    IF i < 10 THEN <<Digits[i + 1]>>
    ELSE Append(StrOfNat(i \div 10), Digits[(i % 10) + 1])

\* a JSON scalar: t in {"int", "str", "bool", "null", "list"}
JInt(k) == [t |-> "int", n |-> k, s |-> <<>>]
JStr(chars) == [t |-> "str", n |-> 0, s |-> chars]
JBool(b) == [t |-> "bool", n |-> IF b THEN 1 ELSE 0, s |-> <<>>]
JNull == [t |-> "null", n |-> 0, s |-> <<>>]
JFloat(k) == [t |-> "float", n |-> k, s |-> <<>>]

\* float(v), line 87: [err |-> "" | "ValueError" | "TypeError", n |-> value]
FloatOf(v) ==
    CASE v.t \in {"int", "bool", "float"} -> [err |-> "", n |-> v.n]
      [] v.t = "str" ->
            IF ParseNumber(v.s).ok THEN [err |-> "", n |-> ParseNumber(v.s).n]
            ELSE [err |-> "ValueError", n |-> 0]
      [] OTHER -> [err |-> "TypeError", n |-> 0]

\* isinstance(v, int): Python's bool is a subclass of int
IsInstanceInt(v) == v.t \in {"int", "bool"}

----------------------------------------------------------------------------
(* The requests that are explored.  A request is the parsed JSON body      *)
(* (input_data): every field is [t, v] with t = "absent" when the key is   *)
(* missing, "obj"/"list"/"int"... for the JSON type that was sent.         *)

PlayerNames == <<"p1", "p2", "p3", "p4", "p5", "p6", "p7", "p8", "p9", "p10",
                 "p11", "p12">>
Roster(n) == SubSeq(PlayerNames, 1, n)
RosterSizes == (Len(MAIN_POSITIONS) - 1) .. (Len(MAIN_POSITIONS) + MaxBench)

Absent == [t |-> "absent", v |-> {}]
Obj(entries) == [t |-> "obj", v |-> entries]
NotObj == [t |-> "list", v |-> {}]

\* fixed_assignments[p][k] = pos, or fixed_assignments[p] not an object
FixedEntry(p, k, pos) == [p |-> p, t |-> "obj", k |-> k, pos |-> pos]
FixedNonDict(p) == [p |-> p, t |-> "list", k |-> <<>>, pos |-> ""]

\* actual_counts[p][pos] = val, or actual_counts[p] not an object
CountEntry(p, pos, val) == [p |-> p, t |-> "obj", pos |-> pos, val |-> val]
CountNonDict(p) == [p |-> p, t |-> "list", pos |-> "", val |-> JNull]

\* player_preferences[p] = {preferred: ..., restricted: ...}, each [t, v];
\* or player_preferences[p] not an object
PrefEntry(p, preferred, restricted) ==
    [p |-> p, t |-> "obj", preferred |-> preferred, restricted |-> restricted]
PrefNonDict(p) == [p |-> p, t |-> "list", preferred |-> Absent, restricted |-> Absent]
JList(elems) == [t |-> "list", v |-> elems]
JOther == [t |-> "str", v |-> {}]

\* The base of the requests of Spec: the first seven players are fixed to the
\* first seven main positions in every inning, which leaves "P", "C" and the
\* bench to the solver.
PinnedPositions == <<"CF", "LF", "RF", "SS", "1B", "2B", "3B">>
PinEntries(n, g) ==
    {FixedEntry(PlayerNames[j], StrOfNat(i), PinnedPositions[j]) :
        j \in 1..Len(PinnedPositions), i \in 1..g}

ExtraFixedPool ==
    { FixedEntry("p8", <<"1">>, "P"),
      FixedEntry("p8", <<"0", "1">>, "P"),
      FixedEntry("p8", <<"0", "1">>, "C"),
      FixedEntry("p9", <<"1">>, "P"),
      FixedEntry("p9", <<"1">>, "OUT"),
      FixedEntry("p8", <<" ", "2">>, "C"),
      FixedEntry("p8", <<"x">>, "P"),
      FixedEntry("p8", <<"7">>, "P"),
      FixedEntry("p8", <<"1">>, "DH"),
      FixedEntry("zz", <<"1">>, "P"),
      FixedEntry("p1", <<"0", "1">>, "CF"),
      FixedEntry("p9", <<"0", "1">>, "CF"),
      FixedEntry("p10", <<"+", "1">>, "OUT"),
      FixedNonDict("p9") }

\* a JSON object has one value per key
IsJsonObject(entries) ==
    \A a, b \in entries :
        /\ (a.p = b.p /\ a.t = "obj" /\ b.t = "obj" /\ a.k = b.k) => a = b
        /\ (a.p = b.p) => (a.t = b.t)

PreferenceChoices ==
    { {},
      {PrefEntry("p8", Absent, JList({"C"}))},
      {PrefEntry("p8", Absent, JList({"C"})), PrefEntry("p9", Absent, JList({"C"}))},
      {PrefEntry("p9", JList({"P"}), JList({"OUT"}))},
      {PrefEntry("p8", JOther, JList({"P", "C"}))},
      {PrefEntry("p1", JList({"LF"}), JList({"CF"})), PrefNonDict("p9")} }

CountChoices ==
    { {} } \cup
    { {CountEntry("p9", "OUT", JInt(c))} : c \in 1..MaxCount } \cup
    { {CountEntry("p8", "OUT", JStr(<<"1">>)), CountEntry("p8", "C", JInt(MaxCount)),
       CountEntry("p10", "P", JInt(1))},
      {CountNonDict("p8"), CountEntry("zz", "OUT", JStr(<<"a", "b", "c">>)),
       CountEntry("p9", "XX", JNull)} }

\* counts that float() refuses
BadCountChoices ==
    { {CountEntry("p8", "OUT", JStr(<<"a", "b", "c">>))},
      {CountEntry("p8", "OUT", JNull)},
      {CountEntry("p9", "C", JStr(<<>>))} }

Request(body, players, innings, fixed, counts, prefs) ==
    [body |-> body, players |-> players, game_innings |-> innings,
     fixed_assignments |-> fixed, actual_counts |-> counts,
     player_preferences |-> prefs]

PlayersList(n) == [t |-> "list", v |-> Roster(n)]

Variation(extra, counts, prefs) ==
    Cardinality(extra) + (IF counts = {} THEN 0 ELSE 1) + (IF prefs = {} THEN 0 ELSE 1)

\* well-typed requests: a roster, an inning count, the pinned assignments and
\* at most MaxExtraFixed departures from that base
TypedRequests ==
    { Request("obj", PlayersList(n), JInt(g), Obj(PinEntries(n, g) \cup extra),
              IF counts = {} THEN Absent ELSE Obj(counts),
              IF prefs = {} THEN Absent ELSE Obj(prefs)) :
        <<n, g, extra, counts, prefs>> \in
            { x \in RosterSizes \X (1..MaxInnings) \X (SUBSET ExtraFixedPool)
                      \X CountChoices \X PreferenceChoices :
                /\ Variation(x[3], x[4], x[5]) <= MaxExtraFixed
                /\ IsJsonObject(PinEntries(x[1], x[2]) \cup x[3]) } }

BaseRequest ==
    Request("obj", PlayersList(Len(MAIN_POSITIONS)), JInt(1),
            Obj(PinEntries(Len(MAIN_POSITIONS), 1)), Absent, Absent)

\* requests with one field of the wrong shape
FaultyRequests ==
    { [BaseRequest EXCEPT !.body = b] : b \in {"none", "list"} } \cup
    { [BaseRequest EXCEPT !.players = p] :
        p \in {[t |-> "absent", v |-> <<>>], [t |-> "list", v |-> <<>>],
               [t |-> "str", v |-> <<>>], [t |-> "null", v |-> <<>>]} } \cup
    { [BaseRequest EXCEPT !.game_innings = g] :
        g \in {JInt(0), JInt(0 - 1), JStr(<<"1">>), JFloat(1), JNull,
               JBool(TRUE), JBool(FALSE)} } \cup
    { [BaseRequest EXCEPT !.fixed_assignments = NotObj],
      [BaseRequest EXCEPT !.actual_counts = NotObj],
      [BaseRequest EXCEPT !.player_preferences = NotObj] } \cup
    { [BaseRequest EXCEPT !.actual_counts = Obj(c)] : c \in BadCountChoices }

Requests == TypedRequests \cup FaultyRequests

----------------------------------------------------------------------------
(* Responses, lines 213-225.                                               *)

NoTable == <<>>
Ok200(table) == [status |-> 200, error |-> "", table |-> table]
\* except ValueError as ve: ... 400
Error400(msg) == [status |-> 400, error |-> msg, table |-> NoTable]
\* except Exception as e: ... 500
Error500(errType) == [status |-> 500, error |-> errType, table |-> NoTable]
NoResponse == [status |-> 0, error |-> "", table |-> NoTable]

MsgNoJson == "No JSON input received."
MsgPlayers == "'players' field must be a non-empty list."
MsgFixed == "'fixed_assignments' field must be an object (dictionary)."
MsgCounts == "'actual_counts' field must be an object (dictionary)."
MsgInnings == "'game_innings' must be a positive integer."
MsgPrefs == "'player_preferences' field must be an object (dictionary)."
MsgFloat == "could not convert string to float"
MsgInfeasible ==
    "Optimization failed: Infeasible. Check conflicting fixed assignments or constraints."
MsgTimeout ==
    "Optimization failed: Solver timed out (55s) before finding a feasible solution."
ValidationMessages == {MsgNoJson, MsgPlayers, MsgFixed, MsgCounts, MsgInnings, MsgPrefs}

----------------------------------------------------------------------------
(* State after construction: a request has arrived and nothing is computed.*)

NoPrevious == [request |-> BaseRequest, table |-> NoTable]
NoProblem ==
    [onePos |-> {}, mainPos |-> {}, fixed |-> {}, out |-> <<>>, targetNum |-> <<>>,
     den |-> 1, coef |-> <<>>, error |-> ""]
NoSolve == [status |-> "none", hasValues |-> FALSE, X |-> <<>>]

Fresh(req) ==
    /\ pc = "received"
    /\ input_data = req
    /\ players_str = <<>>
    /\ game_innings = 0
    /\ fixed_assignments = {}
    /\ actual_counts_input = {}
    /\ player_preferences = {}
    /\ actual_counts = <<>>
    /\ total_current = <<>>
    /\ target_bench_ratio = [num |-> 0, den |-> 1]
    /\ prob = NoProblem
    /\ solved = NoSolve
    /\ response = NoResponse

Init ==
    /\ \E req \in Requests : Fresh(req)
    /\ round = 1
    /\ previous = NoPrevious

Finish(resp) ==
    /\ pc' = "responded"
    /\ response' = resp

----------------------------------------------------------------------------
(* Input parsing and validation, lines 42-67.                              *)

\* the outcome of lines 44-67: "" when the request passes
ValidationError(req) ==
    CASE req.body = "none" -> Error400(MsgNoJson)
      \* input_data.get on a body that is not an object
      [] req.body # "obj" -> Error500("AttributeError")
      \* not players_str or not isinstance(players_str, list)
      [] req.players.t # "list" \/ req.players.v = <<>> -> Error400(MsgPlayers)
      [] req.fixed_assignments.t \notin {"absent", "obj"} -> Error400(MsgFixed)
      [] req.actual_counts.t \notin {"absent", "obj"} -> Error400(MsgCounts)
      [] /\ req.game_innings.t # "absent"
         /\ (~IsInstanceInt(req.game_innings) \/ req.game_innings.n <= 0)
            -> Error400(MsgInnings)
      [] req.player_preferences.t \notin {"absent", "obj"} -> Error400(MsgPrefs)
      [] OTHER -> NoResponse

Validate ==
    /\ pc = "received"
    /\ \E err \in {ValidationError(input_data)} :
        IF err # NoResponse
        THEN /\ Finish(err)
             /\ UNCHANGED <<players_str, game_innings, fixed_assignments,
                            actual_counts_input, player_preferences>>
        ELSE /\ pc' = "validated"
             /\ players_str' = input_data.players.v
             /\ fixed_assignments' = input_data.fixed_assignments.v
             /\ actual_counts_input' = input_data.actual_counts.v
             /\ game_innings' = IF input_data.game_innings.t = "absent"
                                THEN DEFAULT_GAME_INNINGS
                                ELSE input_data.game_innings.n
             /\ player_preferences' = input_data.player_preferences.v
             /\ UNCHANGED response
    /\ UNCHANGED <<input_data, actual_counts, total_current, target_bench_ratio,
                   prob, solved, round, previous>>

----------------------------------------------------------------------------
(* Data preprocessing and the fairness target, lines 80-97.                *)

RECURSIVE SumSeq(_)
SumSeq(s) == IF s = <<>> THEN 0 ELSE Head(s) + SumSeq(Tail(s))

RECURSIVE SumOver(_, _)
\* the sum of f[k] over the keys k of the set keys
SumOver(f, keys) ==
    IF keys = {} THEN 0
    ELSE LET k == CHOOSE c \in keys : TRUE
         IN  f[k] + SumOver(f, keys \ {k})

Max(a, b) == IF a >= b THEN a ELSE b
Abs(a) == IF a >= 0 THEN a ELSE 0 - a

\* counts.get(pos, 0) for counts = actual_counts_input.get(p_id, {}), with a
\* value that is not an object replaced by {} (lines 83-86)
CountValue(input, p, pos) ==
    LET hits == {e \in input : e.p = p /\ e.t = "obj" /\ e.pos = pos}
    IN  IF hits = {} THEN JInt(0) ELSE (CHOOSE e \in hits : TRUE).val

\* float() of every count in the order of the loops of lines 82-87: the
\* first conversion that raises decides the exception
FirstCountError(input, players) ==
    LET n == Len(POSITIONS)
        errAt(k) == FloatOf(CountValue(input, players[((k - 1) \div n) + 1],
                                       POSITIONS[((k - 1) % n) + 1])).err
        bad == {k \in 1..(Len(players) * n) : errAt(k) # ""}
    IN  IF bad = {} THEN ""
        ELSE errAt(CHOOSE k \in bad : \A m \in bad : k <= m)

\* actual_counts[p_id] = {pos: float(counts.get(pos, 0)) for pos in POSITIONS}
ActualCounts(input, players) ==
    [j \in DOMAIN players |->
        [pos \in PositionSet |-> FloatOf(CountValue(input, players[j], pos)).n]]

\* total_current[p_id] = sum(actual_counts[p_id].values())
TotalCurrent(counts) ==
    [j \in DOMAIN counts |->
        SumSeq([k \in DOMAIN POSITIONS |-> counts[j][POSITIONS[k]]])]

\* the bench innings of this game are left out of the ratio
TargetBenchRatioHistoryOnly(counts, totals, innings) ==
    LET total_actual_out == SumSeq([j \in DOMAIN counts |-> counts[j]["OUT"]])
        sum_T == SumSeq(totals) + innings * Len(counts)
    IN  IF sum_T > 0
        THEN [num |-> total_actual_out, den |-> sum_T]
        ELSE [num |-> 0, den |-> 1]

\* lines 93-97; the ratio is kept as the pair num/den
TargetBenchRatio(counts, totals, innings) ==
    LET total_actual_out == SumSeq([j \in DOMAIN counts |-> counts[j]["OUT"]])
        total_new_out ==
            innings * Max(0, Len(counts) - Len(MAIN_POSITIONS))
        sum_T == SumSeq(totals) + innings * Len(counts)
    IN  IF sum_T > 0
        THEN [num |-> total_actual_out + total_new_out, den |-> sum_T]
        ELSE [num |-> 0, den |-> 1]

Preprocess ==
    /\ pc = "validated"
    /\ \E err \in {FirstCountError(actual_counts_input, players_str)} :
        CASE err = "ValueError" ->
                /\ Finish(Error400(MsgFloat))
                /\ UNCHANGED <<actual_counts, total_current, target_bench_ratio>>
          [] err = "TypeError" ->
                /\ Finish(Error500("TypeError"))
                /\ UNCHANGED <<actual_counts, total_current, target_bench_ratio>>
          [] OTHER ->
                /\ pc' = "preprocessed"
                /\ \E counts \in {ActualCounts(actual_counts_input, players_str)} :
                     \E totals \in {TotalCurrent(counts)} :
                        /\ actual_counts' = counts
                        /\ total_current' = totals
                        /\ target_bench_ratio' =
                               TargetBenchRatio(counts, totals, game_innings)
                /\ UNCHANGED response
    /\ UNCHANGED <<input_data, players_str, game_innings, fixed_assignments,
                   actual_counts_input, player_preferences, prob, solved, round,
                   previous>>

----------------------------------------------------------------------------
(* The PuLP model, lines 99-171.  X[p_id][i][pos] is one binary variable   *)
(* per player, inning and position; a roster is a list of distinct ids, so *)
(* a player is named by the index j of the id in players_str.  The problem *)
(* records which constraints were added and the objective's coefficients.  *)

Innings(g) == 1..g

\* line 113, for p_id and i: lpSum(X[p_id][i][pos] for pos in POSITIONS) == 1;
\* ones is the set of positions whose variable is 1
OnePosConstraint(ones) == Cardinality(ones) = 1

\* a main position may stay empty
MainPosConstraintAtMost(count) == count <= 1

\* line 118, for pos and i: lpSum(X[p_id][i][pos] for p_id in players_str) == 1
MainPosConstraint(count) == count = 1

\* a fixed bench inning adds no constraint
FixedConstraintMainOnly(ones, fixed_pos) == fixed_pos = "OUT" \/ fixed_pos \in ones

\* line 131: X[p_id][inning][fixed_pos] == 1
FixedConstraint(ones, fixed_pos) == fixed_pos \in ones

\* lines 122-130: the entries of fixed_assignments that add a constraint
AddsFixedConstraint(e, players, innings) ==
    /\ e.p \in Range(players)
    /\ e.t = "obj"
    /\ LET inning == ParseNumber(e.k)
       IN  inning.ok /\ 1 <= inning.n /\ inning.n <= innings
    /\ e.pos \in PositionSet

\* the constraint an entry adds; its name is Fixed_{p_id}_{inning}_{fixed_pos}
FixedTriple(e) == <<e.p, ParseNumber(e.k).n, e.pos>>

\* prob += ..., name: PuLP's LpProblem.addConstraint raises PulpError
\* ("overlapping constraint names") when the name is already in use; line 135
\* catches only ValueError and KeyError
OverlappingNames(fixed, players, innings) ==
    LET adding == {e \in fixed : AddsFixedConstraint(e, players, innings)}
    IN  Cardinality({FixedTriple(e) : e \in adding}) < Cardinality(adding)

\* lines 154-159: the preferred and the restricted set of a player
PrefSet(prefs, p, which) ==
    LET hits == {e \in prefs : e.p = p /\ e.t = "obj"}
        field == IF which = "preferred"
                 THEN (CHOOSE e \in hits : TRUE).preferred
                 ELSE (CHOOSE e \in hits : TRUE).restricted
    IN  IF hits = {} THEN {}
        ELSE IF field.t = "list" THEN field.v ELSE {}

\* the restricted set is not charged
PenaltyCoefficientNoRestricted(pos, preferred, restricted) ==
    IF pos # "OUT" /\ pos \notin preferred THEN NOT_PREFERRED_PENALTY ELSE 0

\* the bench is charged like a main position
PenaltyCoefficientBenchCharged(pos, preferred, restricted) ==
    IF pos \in restricted THEN RESTRICTED_POSITION_PENALTY
    ELSE IF pos \notin preferred THEN NOT_PREFERRED_PENALTY
    ELSE 0

\* lines 162-168: the coefficient of X[p_id][i][pos] in the penalty term
PenaltyCoefficient(pos, preferred, restricted) ==
    IF pos \in restricted THEN RESTRICTED_POSITION_PENALTY
    ELSE IF pos # "OUT" /\ pos \notin preferred THEN NOT_PREFERRED_PENALTY
    ELSE 0

BuildProblem(players, innings, fixed, prefs, counts, totals, ratio) ==
    [onePos |-> (DOMAIN players) \X Innings(innings),
     mainPos |-> MainSet \X Innings(innings),
     fixed |-> {FixedTriple(e) :
                  e \in {f \in fixed : AddsFixedConstraint(f, players, innings)}},
     \* lines 141-148: final_bench_innings = out[j] + bench count,
     \* target_bench_innings = targetNum[j] / den
     out |-> [j \in DOMAIN players |-> counts[j]["OUT"]],
     targetNum |-> [j \in DOMAIN players |-> ratio.num * (totals[j] + innings)],
     den |-> ratio.den,
     coef |-> [j \in DOMAIN players |->
                 [pos \in PositionSet |->
                    PenaltyCoefficient(pos,
                        PrefSet(prefs, players[j], "preferred"),
                        PrefSet(prefs, players[j], "restricted"))]],
     error |-> IF OverlappingNames(fixed, players, innings) THEN "PulpError" ELSE ""]

BuildModel ==
    /\ pc = "preprocessed"
    /\ \E pr \in {BuildProblem(players_str, game_innings, fixed_assignments,
                               player_preferences, actual_counts, total_current,
                               target_bench_ratio)} :
        /\ prob' = pr
        /\ IF pr.error # ""
           THEN Finish(Error500(pr.error))
           ELSE pc' = "built" /\ UNCHANGED response
    /\ UNCHANGED <<input_data, players_str, game_innings, fixed_assignments,
                   actual_counts_input, player_preferences, actual_counts,
                   total_current, target_bench_ratio, solved, round, previous>>

----------------------------------------------------------------------------
(* The solver, lines 176-178: prob.solve(PULP_CBC_CMD(timeLimit=55)).      *)
(* The solver is an external program; it is modelled by its contract.  A   *)
(* value of the variables is X[i][j], the set of positions pos with        *)
(* X[players_str[j]][i][pos] = 1.  The feasible values are enumerated      *)
(* player by player and inning by inning from the constraints of prob.     *)

OnePosCells == {ones \in SUBSET PositionSet : OnePosConstraint(ones)}

\* the values of the ten variables of player j in inning i that satisfy the
\* constraints on these variables alone
CellChoices(pr, players, j, i) ==
    LET fixedHere == {f[3] : f \in {g \in pr.fixed : g[1] = players[j] /\ g[2] = i}}
    IN  {ones \in (IF <<j, i>> \in pr.onePos THEN OnePosCells ELSE SUBSET PositionSet) :
            \A fixed_pos \in fixedHere : FixedConstraint(ones, fixed_pos)}

\* the main-position constraints of inning i can still be met when the first
\* Len(row) players have the values of row and `remaining` players follow
MainPosOpen(pr, i, row, remaining) ==
    \A pos \in MainSet :
        <<pos, i>> \in pr.mainPos =>
            \E extra \in 0..remaining :
                MainPosConstraint(
                    Cardinality({k \in DOMAIN row : pos \in row[k]}) + extra)

RECURSIVE InningRows(_, _, _, _)
\* the values of the first j players in inning i
InningRows(pr, players, i, j) ==
    IF j = 0 THEN {<<>>}
    ELSE UNION { { Append(row, ones) :
                     ones \in {c \in CellChoices(pr, players, j, i) :
                                 MainPosOpen(pr, i, Append(row, c),
                                             Len(players) - j)} } :
                 row \in InningRows(pr, players, i, j - 1) }

RECURSIVE FeasibleUpTo(_, _, _)
\* the values of all variables of innings 1..g that satisfy every constraint
FeasibleUpTo(pr, players, g) ==
    IF g = 0 THEN {<<>>}
    ELSE { Append(x, row) :
             x \in FeasibleUpTo(pr, players, g - 1),
             row \in InningRows(pr, players, g, Len(players)) }

BenchCount(x, j) == Cardinality({i \in DOMAIN x : "OUT" \in x[i][j]})

\* line 171 at the least d[p_id] that lines 147-148 allow, times pr.den
Objective(pr, x) ==
    LET n == Len(pr.out)
        deviation ==
            SumSeq([j \in 1..n |->
                Abs((pr.out[j] + BenchCount(x, j)) * pr.den - pr.targetNum[j])])
        penalty ==
            SumSeq([i \in DOMAIN x |->
                SumSeq([j \in 1..n |-> SumOver(pr.coef[j], x[i][j])])])
    IN  BENCH_DEVIATION_WEIGHT * deviation + pr.den * penalty

MinOf(values) == CHOOSE m \in values : \A k \in values : m <= k

OptimalAmong(scored) ==
    LET best == MinOf({q[2] : q \in scored})
    IN  {q[1] : q \in {r \in scored : r[2] = best}}

Outcome(status, hasValues, x) == [status |-> status, hasValues |-> hasValues, X |-> x]

\* What prob.solve can leave behind, given the feasible values.  The time
\* limit can stop the solver only while it searches: a model with no feasible
\* value is reported infeasible and a model with one feasible value is solved
\* (its relaxation decides both, the constraints being those of an assignment
\* problem); otherwise the limit may strike with an incumbent (any feasible
\* value) or without one (no variable has a value).
SolverContract(pr, feasible, decided) ==
    LET scored == {<<x, Objective(pr, x)>> : x \in feasible}
    IN  IF feasible = {} THEN {Outcome("Infeasible", FALSE, <<>>)}
        ELSE {Outcome("Optimal", TRUE, x) : x \in OptimalAmong(scored)}
             \cup (IF decided THEN {}
                   ELSE {Outcome(st, TRUE, x) :
                            st \in {"Not Solved", "Undefined"}, x \in feasible}
                        \cup {Outcome("Not Solved", FALSE, <<>>)})

SolverOutcomes(pr, players, innings) ==
    LET feasible == FeasibleUpTo(pr, players, innings)
    IN  SolverContract(pr, feasible, Cardinality(feasible) = 1)

Solve ==
    /\ pc = "built"
    /\ \E outcome \in SolverOutcomes(prob, players_str, game_innings) :
        solved' = outcome
    /\ pc' = "solved"
    /\ UNCHANGED <<input_data, players_str, game_innings, fixed_assignments,
                   actual_counts_input, player_preferences, actual_counts,
                   total_current, target_bench_ratio, prob, response, round,
                   previous>>

----------------------------------------------------------------------------
(* Result processing, lines 181-213.                                       *)

\* lines 203-208: the first position, in the order of POSITIONS, whose
\* variable rounds to 1, "ERR" when there is none
AssignedPos(ones) ==
    LET hits == {k \in DOMAIN POSITIONS : POSITIONS[k] \in ones}
    IN  IF hits = {} THEN "ERR"
        ELSE POSITIONS[CHOOSE k \in hits : \A m \in hits : k <= m]

\* innings are keyed counting back from the last one
OutputJsonCountingBack(players, innings, x) ==
    [j \in DOMAIN players |->
        [player_id |-> players[j],
         innings |-> {<<StrOfNat(innings + 1 - i), AssignedPos(x[i][j])>> :
                         i \in 1..innings}]]

\* lines 199-210: per player the dictionary str(i) -> position, as the set
\* of its key/value pairs
OutputJson(players, innings, x) ==
    [j \in DOMAIN players |->
        [player_id |-> players[j],
         innings |-> {<<StrOfNat(i), AssignedPos(x[i][j])>> : i \in Innings(innings)}]]

\* line 193: some variable has no value
AnyValueIsNone(sv) == ~sv.hasValues

\* a solve without values is reported as infeasible
ResultOfOneMessage(sv, players, innings) ==
    IF sv.status = "Infeasible" \/ ~sv.hasValues THEN Error400(MsgInfeasible)
    ELSE Ok200([j \in DOMAIN players |->
                  [player_id |-> players[j],
                   innings |-> {<<StrOfNat(i), CHOOSE pos \in sv.X[i][j] : TRUE>> :
                                   i \in 1..innings}]])

ResultOf(sv, players, innings) ==
    IF sv.status = "Infeasible" THEN Error400(MsgInfeasible)
    ELSE IF AnyValueIsNone(sv) THEN Error400(MsgTimeout)
    ELSE Ok200(OutputJson(players, innings, sv.X))

ProcessResults ==
    /\ pc = "solved"
    /\ Finish(ResultOf(solved, players_str, game_innings))
    /\ UNCHANGED <<input_data, players_str, game_innings, fixed_assignments,
                   actual_counts_input, player_preferences, actual_counts,
                   total_current, target_bench_ratio, prob, solved, round,
                   previous>>

----------------------------------------------------------------------------
(* The caller: a returned table is sent back as the fixed assignments of   *)
(* the same request.                                                       *)

FixedFromTable(table) ==
    UNION { { FixedEntry(table[j].player_id, kv[1], kv[2]) : kv \in table[j].innings } :
            j \in DOMAIN table }

Resubmit ==
    /\ pc = "responded"
    /\ response.status = 200
    /\ round = 1
    /\ round' = 2
    /\ previous' = [request |-> input_data, table |-> response.table]
    /\ pc' = "received"
    /\ input_data' =
         [input_data EXCEPT !.fixed_assignments = Obj(FixedFromTable(response.table))]
    /\ players_str' = <<>>
    /\ game_innings' = 0
    /\ fixed_assignments' = {}
    /\ actual_counts_input' = {}
    /\ player_preferences' = {}
    /\ actual_counts' = <<>>
    /\ total_current' = <<>>
    /\ target_bench_ratio' = [num |-> 0, den |-> 1]
    /\ prob' = NoProblem
    /\ solved' = NoSolve
    /\ response' = NoResponse

----------------------------------------------------------------------------
(* Requests without fixed assignments, preferences and history.  Their     *)
(* models have far too many feasible values to list (9! per inning and     *)
(* more), but they are unchanged by renaming the players and by renaming   *)
(* the main positions, and so is the set of values the solver may return.  *)
(* SolveUpToSymmetry explores one value of each class: in every inning the *)
(* players in the field hold the main positions in roster order, and       *)
(* players with the same bench history so far are benched in roster order. *)

\* no constraint and no coefficient tells two players or two main positions apart
Interchangeable(pr) ==
    /\ pr.fixed = {}
    /\ \A j, k \in DOMAIN pr.out :
          /\ pr.out[j] = pr.out[k]
          /\ pr.targetNum[j] = pr.targetNum[k]
          /\ pr.coef[j] = pr.coef[k]
    /\ \A j \in DOMAIN pr.coef : \A a, b \in MainSet : pr.coef[j][a] = pr.coef[j][b]

\* the row in which the players of `benched` sit out and the others take the
\* main positions in order (none is left for a tenth player in the field)
RowOf(players, benched) ==
    [j \in DOMAIN players |->
        IF j \in benched THEN {"OUT"}
        ELSE LET rank == Cardinality({k \in 1..j : k \notin benched})
             IN  IF rank <= Len(MAIN_POSITIONS) THEN {MAIN_POSITIONS[rank]} ELSE {}]

RowSatisfies(pr, players, i, row) ==
    /\ \A j \in DOMAIN players : row[j] \in CellChoices(pr, players, j, i)
    /\ MainPosOpen(pr, i, row, 0)

CanonicalRows(pr, players, i) ==
    {row \in {RowOf(players, benched) : benched \in SUBSET (DOMAIN players)} :
        RowSatisfies(pr, players, i, row)}

SameBenchHistory(x, j, k) ==
    \A i \in DOMAIN x : ("OUT" \in x[i][j]) <=> ("OUT" \in x[i][k])

InRosterOrder(x, row) ==
    \A j \in 1..(Len(row) - 1) :
        SameBenchHistory(x, j, j + 1) => ~("OUT" \in row[j + 1] /\ "OUT" \notin row[j])

RECURSIVE CanonicalUpTo(_, _, _)
CanonicalUpTo(pr, players, g) ==
    IF g = 0 THEN {<<>>}
    ELSE UNION { { Append(x, row) :
                     row \in {r \in CanonicalRows(pr, players, g) : InRosterOrder(x, r)} } :
                 x \in CanonicalUpTo(pr, players, g - 1) }

\* defined for interchangeable models only; several values belong to every
\* class, so the solver is never spared the search
SolverOutcomesUpToSymmetry(pr, players, innings) ==
    IF Interchangeable(pr)
    THEN SolverContract(pr, CanonicalUpTo(pr, players, innings), FALSE)
    ELSE {}

SolveUpToSymmetry ==
    /\ pc = "built"
    /\ \E outcome \in SolverOutcomesUpToSymmetry(prob, players_str, game_innings) :
        solved' = outcome
    /\ pc' = "solved"
    /\ UNCHANGED <<input_data, players_str, game_innings, fixed_assignments,
                   actual_counts_input, player_preferences, actual_counts,
                   total_current, target_bench_ratio, prob, response, round,
                   previous>>

SymmetricRequests ==
    { Request("obj", PlayersList(n), g, Absent, counts, prefs) :
        n \in RosterSizes,
        g \in {[t |-> "absent", n |-> 0, s |-> <<>>]} \cup {JInt(k) : k \in 1..MaxInnings},
        counts \in {Absent, Obj({}), Obj({CountEntry("p1", "OUT", JInt(0))})},
        prefs \in {Absent, Obj({})} }

InitSymmetric ==
    /\ \E req \in SymmetricRequests : Fresh(req)
    /\ round = 1
    /\ previous = NoPrevious

NextSymmetric ==
    \/ Validate
    \/ Preprocess
    \/ BuildModel
    \/ SolveUpToSymmetry
    \/ ProcessResults

SpecSymmetric == InitSymmetric /\ [][NextSymmetric]_vars

Next ==
    \/ Validate
    \/ Preprocess
    \/ BuildModel
    \/ Solve
    \/ ProcessResults
    \/ Resubmit

Spec == Init /\ [][Next]_vars

----------------------------------------------------------------------------
(* Properties.                                                             *)

Returned == pc = "responded" /\ response.status = 200
RosterSize == Len(input_data.players.v)
BenchSize == Max(0, RosterSize - Len(MAIN_POSITIONS))
IsDistinct(seq) == \A j, k \in DOMAIN seq : seq[j] = seq[k] => j = k

\* the positions the table gives to its j-th player under the key str(i)
TableCell(table, j, i) == {kv[2] : kv \in {q \in table[j].innings : q[1] = StrOfNat(i)}}
PlayersAt(table, i, pos) == {j \in DOMAIN table : pos \in TableCell(table, j, i)}

\* C1: a returned table lists the roster's players, gives every player exactly
\* one position in every inning 1..game_innings, has exactly one occupant of
\* every main position in every inning, and benches max(0, roster size - 9)
\* players in every inning.
C1_TableIsLineup ==
    (Returned /\ IsDistinct(input_data.players.v)) =>
        /\ Len(response.table) = RosterSize
        /\ \A j \in DOMAIN response.table :
              /\ response.table[j].player_id = input_data.players.v[j]
              /\ Cardinality(response.table[j].innings) = game_innings
              /\ \A i \in 1..game_innings :
                    /\ Cardinality(TableCell(response.table, j, i)) = 1
                    /\ TableCell(response.table, j, i) \subseteq PositionSet
        /\ \A i \in 1..game_innings :
              /\ \A pos \in MainSet :
                    Cardinality(PlayersAt(response.table, i, pos)) = 1
              /\ Cardinality(PlayersAt(response.table, i, "OUT")) = BenchSize

C1_Witness ==
    /\ Returned
    /\ round = 1
    /\ RosterSize > Len(MAIN_POSITIONS)
    /\ game_innings > 1

\* the inning an entry of the request's fixed_assignments names, 0 if none
EntryInning(e) == IF ParseNumber(e.k).ok THEN ParseNumber(e.k).n ELSE 0
EntryIsValid(e) ==
    /\ e.t = "obj"
    /\ e.p \in Range(input_data.players.v)
    /\ EntryInning(e) \in 1..game_innings
    /\ e.pos \in PositionSet
IndexOf(seq, p) == CHOOSE j \in DOMAIN seq : seq[j] = p

\* C2: a returned table gives every valid fixed assignment (roster player,
\* inning key that converts to 1..game_innings, known position) exactly that
\* position, and the model holds no fixed constraint other than those of the
\* valid entries: the others are skipped.
C2_FixedHonoured ==
    /\ Returned =>
          \A e \in input_data.fixed_assignments.v :
              EntryIsValid(e) =>
                  TableCell(response.table, IndexOf(input_data.players.v, e.p),
                            EntryInning(e)) = {e.pos}
    /\ pc \in {"built", "solved"} =>
          prob.fixed = { <<e.p, EntryInning(e), e.pos>> :
                            e \in {f \in input_data.fixed_assignments.v : EntryIsValid(f)} }

C2_Witness ==
    /\ Returned
    /\ round = 1
    /\ FixedEntry("p10", <<"+", "1">>, "OUT") \in input_data.fixed_assignments.v
    /\ FixedEntry("p8", <<"7">>, "P") \in input_data.fixed_assignments.v

RestrictedOf(j) ==
    PrefSet(input_data.player_preferences.v, input_data.players.v[j], "restricted")

\* the values of the variables that satisfy the hard constraints of the request
HardFeasible == FeasibleUpTo(prob, players_str, game_innings)

\* C3 as stated: in a table returned from a solve proven optimal no player is
\* at a position of the player's restricted set in an inning in which some
\* assignment satisfying the hard constraints has the player elsewhere.
C3_NeverRestrictedIfAvoidable ==
    (Returned /\ solved.status = "Optimal") =>
        \A j \in DOMAIN response.table : \A i \in 1..game_innings :
            (TableCell(response.table, j, i) \cap RestrictedOf(j) # {}) =>
                ~ \E x \in HardFeasible : x[i][j] \cap RestrictedOf(j) = {}

RestrictedInTable(table) ==
    Cardinality({<<j, i>> \in (DOMAIN table) \X (1..game_innings) :
                    TableCell(table, j, i) \cap RestrictedOf(j) # {}})
RestrictedInValue(x) ==
    Cardinality({<<j, i>> \in (DOMAIN players_str) \X (1..game_innings) :
                    x[i][j] \cap RestrictedOf(j) # {}})

\* C3 as amended: a table returned from a solve proven optimal has the least
\* number of restricted placements (player-innings at a position of the
\* player's restricted set) that the hard constraints allow.
C3_FewestRestricted ==
    (Returned /\ solved.status = "Optimal") =>
        \/ RestrictedInTable(response.table) = 0
        \/ RestrictedInTable(response.table) =
              MinOf({RestrictedInValue(x) : x \in HardFeasible})

C3_Witness ==
    /\ Returned
    /\ round = 1
    /\ solved.status = "Optimal"
    /\ RestrictedInTable(response.table) > 0
    /\ \E x \in HardFeasible : RestrictedInValue(x) > RestrictedInTable(response.table)

\* C4 as stated: the penalty term gives the bench variable of every player a
\* zero coefficient whatever the player's preferred and restricted sets are.
C4_BenchNeverPenalised ==
    pc = "built" => \A j \in DOMAIN prob.coef : prob.coef[j]["OUT"] = 0

\* C4 as amended: the bench variable never carries the not-preferred charge;
\* its coefficient is the restricted charge when the player's restricted set
\* names OUT and zero otherwise.
C4_BenchOnlyRestricted ==
    pc = "built" =>
        \A j \in DOMAIN prob.coef :
            /\ prob.coef[j]["OUT"] # NOT_PREFERRED_PENALTY
            /\ prob.coef[j]["OUT"] =
                  IF "OUT" \in RestrictedOf(j) THEN RESTRICTED_POSITION_PENALTY ELSE 0

C4_Witness ==
    /\ pc = "built"
    /\ \E j \in DOMAIN prob.coef :
          /\ prob.coef[j]["OUT"] = RESTRICTED_POSITION_PENALTY
          /\ prob.coef[j]["P"] = 0

\* the innings in which the table benches its j-th player
TableBench(table, j) ==
    Cardinality({i \in 1..game_innings : "OUT" \in TableCell(table, j, i)})

\* sum over players of |bench innings - target bench innings|, times the
\* denominator of target_bench_ratio; bench[j] counts this game's bench innings
BenchDeviation(bench) ==
    SumSeq([j \in DOMAIN players_str |->
        Abs((actual_counts[j]["OUT"] + bench[j]) * target_bench_ratio.den
            - target_bench_ratio.num * (total_current[j] + game_innings))])

NoHistory ==
    \A j \in DOMAIN actual_counts : \A pos \in PositionSet : actual_counts[j][pos] = 0

Unconstrained ==
    /\ prob.fixed = {}
    /\ player_preferences = {}
    /\ NoHistory

\* C5: with no fixed assignments, no preferences and no history, a table from
\* a solve proven optimal has the least total bench deviation among the values
\* that satisfy the constraints; with ten players and six innings every inning
\* benches exactly one player and no player is benched twice.
C5_OptimalIsFairest ==
    (Returned /\ solved.status = "Optimal" /\ Unconstrained) =>
        /\ LET tableBench == [j \in DOMAIN players_str |-> TableBench(response.table, j)]
           IN  \A x \in CanonicalUpTo(prob, players_str, game_innings) :
                  BenchDeviation(tableBench) <=
                      BenchDeviation([j \in DOMAIN players_str |-> BenchCount(x, j)])
        /\ (RosterSize = Len(MAIN_POSITIONS) + 1 /\ game_innings = DEFAULT_GAME_INNINGS) =>
              /\ \A i \in 1..game_innings :
                    Cardinality(PlayersAt(response.table, i, "OUT")) = 1
              /\ \A j \in DOMAIN response.table : TableBench(response.table, j) <= 1

C5_Witness ==
    /\ Returned
    /\ solved.status = "Optimal"
    /\ Unconstrained
    /\ RosterSize = Len(MAIN_POSITIONS) + 1
    /\ game_innings = DEFAULT_GAME_INNINGS
    /\ \E j \in DOMAIN response.table : TableBench(response.table, j) = 0

\* C6: when a returned table is sent back as the fixed assignments of the
\* request that produced it, the answer is that same table.
C6_Idempotent ==
    (round = 2 /\ pc = "responded") => response = Ok200(previous.table)

C6_Witness ==
    /\ round = 2
    /\ Returned
    /\ input_data.fixed_assignments.v = FixedFromTable(previous.table)
    /\ RosterSize > Len(MAIN_POSITIONS)
    /\ game_innings > 1

TimeLimit == {"Not Solved", "Undefined"}

\* the table holds, for every player and inning, a position whose variable is 1
TableReads(table, x) ==
    \A j \in DOMAIN table : \A i \in 1..game_innings :
        /\ TableCell(table, j, i) # {}
        /\ TableCell(table, j, i) \subseteq x[i][j]

\* C8: infeasible -> 400 with the infeasibility message; optimal -> 200 with
\* the table of the values; time limit with an incumbent -> 200 with the
\* incumbent's table; time limit without values -> 400 with a timeout message
\* that is not the infeasibility message; no table without values.
C8_OutcomesClassified ==
    (pc = "responded" /\ solved.status # "none") =>
        /\ solved.status = "Infeasible" => response = Error400(MsgInfeasible)
        /\ (solved.status = "Optimal" \/ (solved.status \in TimeLimit /\ solved.hasValues)) =>
              /\ response.status = 200
              /\ TableReads(response.table, solved.X)
        /\ (solved.status \in TimeLimit /\ ~solved.hasValues) =>
              /\ response.status = 400
              /\ response.error = MsgTimeout
              /\ response.error # MsgInfeasible
        /\ response.status = 200 => solved.hasValues

C8_Witness ==
    /\ pc = "responded"
    /\ solved.status \in TimeLimit
    /\ ~solved.hasValues
    /\ response.status = 400

ValidEntries == {e \in input_data.fixed_assignments.v : EntryIsValid(e)}
Contradictory ==
    \E a, b \in ValidEntries :
        /\ EntryInning(a) = EntryInning(b)
        /\ \/ a.p = b.p /\ a.pos # b.pos
           \/ a.p # b.p /\ a.pos = b.pos /\ a.pos \in MainSet

\* C7: a request whose valid fixed assignments force one player into two
\* positions of an inning, or two players into one main position of an
\* inning, ends with the infeasibility error (400), never a table or a 500.
C7_ContradictionIsInfeasible ==
    (pc = "responded" /\ Contradictory) => response = Error400(MsgInfeasible)

NonNumeric(v) == v.t \notin {"int", "float"} /\ ~(v.t = "str" /\ ParseNumber(v.s).ok)
ValidationFault(req) ==
    \/ req.body = "none"
    \/ req.players.t # "list" \/ req.players.v = <<>>
    \/ req.game_innings.t # "absent"
          /\ ~(req.game_innings.t = "int" /\ req.game_innings.n > 0)
    \/ req.fixed_assignments.t \notin {"absent", "obj"}
    \/ req.actual_counts.t \notin {"absent", "obj"}
    \/ req.player_preferences.t \notin {"absent", "obj"}
    \/ \E e \in req.actual_counts.v :
          /\ e.t = "obj"
          /\ e.p \in Range(req.players.v)
          /\ e.pos \in PositionSet
          /\ NonNumeric(e.val)

\* C9: a request with a validation fault is answered 400 and never reaches
\* the solver.
C9_FaultsAre400 ==
    (pc = "responded" /\ ValidationFault(input_data)) =>
        (response.status = 400 /\ solved = NoSolve)

\* C10: a validated request with fewer than nine players ends with the
\* infeasibility error.
C10_SmallRosterInfeasible ==
    (pc = "responded" /\ actual_counts # <<>> /\ RosterSize < Len(MAIN_POSITIONS)) =>
        response = Error400(MsgInfeasible)

====
